---------------------------- MODULE Spec2Model ----------------------------
(***************************************************************************)
(* AwaazAI audio pipeline: the PCM interpreter and WAV encoder             *)
(* (utils/audioProcessing: decodePCMToAudioBuffer, audioBufferToWav), the  *)
(* OLA time-stretch and the speed/pitch orchestrator (timeStretch,         *)
(* processAudio), and the App component's generate handler.                *)
(*                                                                         *)
(* Numbers.  A Float32 sample v is held as the integer v * One, One =      *)
(* 32768, so every value the interpreter decodes (s / 32768.0) is held     *)
(* exactly.  A ratio (speed, pitch factor, stretch ratio) is held as a     *)
(* pair <<num, den>> of positive integers.                                 *)
(***************************************************************************)
EXTENDS Integers, Sequences, FiniteSets, TLC

VARIABLES
    \* --- one decode / encode run of utils/audioProcessing
    cpc,        \* "idle" | "buffer" | "failed" | "samples" | "blob"
    cSource,    \* "none" | "pcm" (buffer made by decodePCMToAudioBuffer) | "supplied"
    cData,      \* decodePCMToAudioBuffer: data (bytes, 1-based sequence)
    cChannels,  \* decodePCMToAudioBuffer: numChannels
    cBuffer,    \* the AudioBuffer decoded or handed to audioBufferToWav
    cError,     \* the exception a call ended with, "" when none
    wav,        \* audioBufferToWav: [view, pos], the DataView and the cursor pos
    offset      \* audioBufferToWav: offset, the frame being written

VARIABLES
    \* --- invocations of processAudio / timeStretch
    heap,       \* the AudioBuffers alive: heap[id], ids 1, 2, ...
    calls,      \* calls[c]: the locals of invocation c and its position
    weights     \* weights[slot]: the Float32Array `weights` of a timeStretch call

VARIABLES
    \* --- the App component
    isGenerating,   \* useState(false)
    error,          \* useState<string | null>(null); "" is null
    audioUrl,       \* useState<string | null>(null); 0 is null, else an object URL
    rawBufferRef,   \* useRef<AudioBuffer | null>(null); NoBuffer is null
    activeTab,      \* "single" | "multi"
    script,         \* the single-speaker text
    multiScript,    \* the dialogue text
    pending,        \* the generate() calls between their start and their finally
    started,        \* the number of generate() calls made
    blobs,          \* the object URLs alive: blobs[url] is the Blob's bytes
    last            \* what the generate() call that finished last saw and left

VARIABLES
    \* --- the window loop of one timeStretch call on one channel, indices only
    loop        \* the locals of timeStretch that decide where windows are placed

VARIABLES
    \* --- the App component: voice previews
    previewingVoice,    \* useState<Voice | null>(null); "" is null
    previews,           \* the handlePreviewVoice() calls between their start and their finally
    previewed           \* the number of handlePreviewVoice() calls that set previewingVoice

codecVars == <<cpc, cSource, cData, cChannels, cBuffer, cError, wav, offset>>
stretchVars == <<heap, calls, weights>>
appVars == <<isGenerating, error, audioUrl, rawBufferRef, activeTab, script, multiScript,
             pending, started, blobs, last>>
loopVars == <<loop>>
previewVars == <<previewingVoice, previews, previewed>>
notCodec == <<stretchVars, appVars, loopVars, previewVars>>
notStretch == <<codecVars, appVars, loopVars, previewVars>>
notApp == <<codecVars, stretchVars, loopVars, previewVars>>
notLoop == <<codecVars, stretchVars, appVars, previewVars>>
notComponent == <<codecVars, stretchVars, loopVars>>
vars == <<codecVars, stretchVars, appVars, loopVars, previewVars>>

\* ------------------------------------------------------------------ bounds
MaxBytes == 4
MaxChannels == 2
MaxSupplyFrames == 2
TinyFrames == 3
LongFrames == 2100
MaxRequests == 2
MaxResponseBytes == 2
MaxIterations == 4
MaxPreviews == 1

\* ------------------------------------------------------- program constants
One == 32768
DefaultSampleRate == 24000
HeaderBytes == 44
windowSize == 1024
hopSize == 512
HannScale == 4096

ByteVals == {0, 1, 127, 128, 255}
SampleRates == {8000, DefaultSampleRate, 48000}
\* Float samples handed to the encoder: -1.5, -1, -32767/32768, -1/32768, 0,
\* 1/32768, 0.5, 32767/32768, 1, 1.5
SampleVals == {-49152, -32768, -32767, -1, 0, 1, 16384, 32767, 32768, 49152}

RECURSIVE SeqsUpTo(_, _)
SeqsUpTo(S, n) ==
    IF n = 0 THEN {<<>>}
    ELSE LET shorter == SeqsUpTo(S, n - 1)
         IN  shorter \cup {Append(q, x) : q \in {r \in shorter : Len(r) = n - 1}, x \in S}

Max(a, b) == IF a > b THEN a ELSE b
Min(a, b) == IF a < b THEN a ELSE b

\* x | 0 and Math.floor on a non-negative quotient: truncation toward zero
TruncDiv(a, b) == IF a >= 0 THEN a \div b ELSE -((-a) \div b)

\* ceil(a / b) for a >= 0, b > 0
CeilDiv(a, b) == (a + b - 1) \div b

NoBuffer == [numberOfChannels |-> 0, length |-> 0, sampleRate |-> 0, channels |-> <<>>]

\* ctx.createBuffer / new AudioBuffer: zero-filled channels
CreateBuffer(numChannels, length, sampleRate) ==
    [numberOfChannels |-> numChannels, length |-> length, sampleRate |-> sampleRate,
     channels |-> [c \in 0..(numChannels - 1) |-> [f \in 0..(length - 1) |-> 0]]]

\* ------------------------------------------------ decodePCMToAudioBuffer
\* element k of new Int16Array(data.buffer): little-endian, two's complement
Int16At(data, k) ==
    LET u == data[2 * k + 1] + 256 * data[2 * k + 2]
    IN  IF u >= 32768 THEN u - 65536 ELSE u

\* dataInt16[k] / 32768.0, in units of 1/One
DecodeSample(data, k) == Int16At(data, k)

\* The frame loop bound: i < frameCount with frameCount = n16 / numChannels a
\* real, so i runs over 0..ceil(frameCount)-1; createBuffer takes the integer
\* part of frameCount; a write at an index >= length is dropped by the typed
\* array.
DecodeFrames(n16, numChannels) == n16 \div numChannels

\* the de-interleave written planar: channel c read from its own block
DecodePCMPlanar(data, sampleRate, numChannels) ==
    IF Len(data) % 2 # 0
    THEN [ok |-> FALSE, error |-> "RangeError", buffer |-> NoBuffer]
    ELSE LET length == DecodeFrames(Len(data) \div 2, numChannels)
         IN  [ok |-> TRUE, error |-> "",
              buffer |->
                [numberOfChannels |-> numChannels, length |-> length,
                 sampleRate |-> sampleRate,
                 channels |-> [c \in 0..(numChannels - 1) |->
                                [i \in 0..(length - 1) |->
                                   DecodeSample(data, c * length + i)]]]]

DecodePCM(data, sampleRate, numChannels) ==
    IF Len(data) % 2 # 0
    THEN [ok |-> FALSE, error |-> "RangeError", buffer |-> NoBuffer]
    ELSE LET n16 == Len(data) \div 2
             length == DecodeFrames(n16, numChannels)
             iters == CeilDiv(n16, numChannels)
             written == 0..(Min(iters, length) - 1)
         IN  [ok |-> TRUE, error |-> "",
              buffer |->
                [numberOfChannels |-> numChannels, length |-> length,
                 sampleRate |-> sampleRate,
                 channels |-> [c \in 0..(numChannels - 1) |->
                                [i \in 0..(length - 1) |->
                                   IF i \in written
                                   THEN DecodeSample(data, i * numChannels + c)
                                   ELSE 0]]]]

\* ------------------------------------------------------ audioBufferToWav
\* the clamp with its upper limit forgotten
ClampLowerOnly(v) == Max(-One, v)

\* Math.max(-1, Math.min(1, v))
Clamp(v) == Max(-One, Min(One, v))

\* (sample < 0 ? sample * 0x8000 : sample * 0x7fff) | 0
Scale(v) == IF v < 0 THEN TruncDiv(v * 32768, One) ELSE TruncDiv(v * 32767, One)

Quantize(v) == Scale(Clamp(v))

\* DataView.setInt16 / setUint16 (pos, x, true): x modulo 2^16, low byte first
PutU16(view, pos, x) ==
    LET u == x % 65536
    IN  [k \in DOMAIN view |->
           IF k = pos THEN u % 256
           ELSE IF k = pos + 1 THEN u \div 256
           ELSE view[k]]

\* DataView.setUint32(pos, x, true)
PutU32(view, pos, x) ==
    [k \in DOMAIN view |->
       IF k = pos THEN x % 256
       ELSE IF k = pos + 1 THEN (x \div 256) % 256
       ELSE IF k = pos + 2 THEN (x \div 65536) % 256
       ELSE IF k = pos + 3 THEN (x \div 16777216) % 256
       ELSE view[k]]

\* setUint16 with the littleEndian flag left out: high byte first
setUint16BigEndian(w, x) ==
    [view |-> [k \in DOMAIN w.view |->
                 IF k = w.pos THEN (x % 65536) \div 256
                 ELSE IF k = w.pos + 1 THEN x % 256
                 ELSE w.view[k]],
     pos |-> w.pos + 2]

\* the closures setUint16 / setUint32 over the cursor pos
setUint16(w, x) == [view |-> PutU16(w.view, w.pos, x), pos |-> w.pos + 2]
setUint32(w, x) == [view |-> PutU32(w.view, w.pos, x), pos |-> w.pos + 4]

WavLength(buffer) == buffer.length * buffer.numberOfChannels * 2 + HeaderBytes

\* lines 51-65: the thirteen header writes, in order
WriteHeader(buffer) ==
    LET length == WavLength(buffer)
        numOfChan == buffer.numberOfChannels
        w0  == [view |-> [k \in 0..(length - 1) |-> 0], pos |-> 0]
        w1  == setUint32(w0, 1179011410)            \* 0x46464952 "RIFF"
        w2  == setUint32(w1, length - 8)
        w3  == setUint32(w2, 1163280727)            \* 0x45564157 "WAVE"
        w4  == setUint32(w3, 544501094)             \* 0x20746d66 "fmt "
        w5  == setUint32(w4, 16)
        w6  == setUint16(w5, 1)
        w7  == setUint16(w6, numOfChan)
        w8  == setUint32(w7, buffer.sampleRate)
        w9  == setUint32(w8, buffer.sampleRate * 2 * numOfChan)
        w10 == setUint16(w9, numOfChan * 2)
        w11 == setUint16(w10, 16)
        w12 == setUint32(w11, 1635017060)           \* 0x61746164 "data"
        w13 == setUint32(w12, length - w12.pos - 4)
    IN  w13

\* lines 73-79: one pass of the while body: every channel of frame `offset`
RECURSIVE WriteFrame(_, _, _, _)
WriteFrame(w, buffer, off, i) ==
    IF i >= buffer.numberOfChannels THEN w
    ELSE LET sample == Quantize(buffer.channels[i][off])
         IN  WriteFrame([view |-> PutU16(w.view, w.pos, sample), pos |-> w.pos + 2],
                        buffer, off, i + 1)

RECURSIVE WriteFrames(_, _, _)
WriteFrames(w, buffer, off) ==
    IF w.pos < WavLength(buffer)
    THEN WriteFrames(WriteFrame(w, buffer, off, 0), buffer, off + 1)
    ELSE w

\* the whole encoder: the bytes of the Blob
audioBufferToWav(buffer) == WriteFrames(WriteHeader(buffer), buffer, 0).view

\* readers used by the properties
U16At(view, p) == view[p] + 256 * view[p + 1]
U32At(view, p) == view[p] + 256 * view[p + 1] + 65536 * view[p + 2] + 16777216 * view[p + 3]
S16At(view, p) == IF U16At(view, p) >= 32768 THEN U16At(view, p) - 65536 ELSE U16At(view, p)

\* ------------------------------------------------------------ timeStretch
\* a ratio is <<num, den>>, num > 0, den > 0
Abs(x) == IF x < 0 THEN -x ELSE x
RECURSIVE Gcd(_, _)
Gcd(a, b) == IF b = 0 THEN a ELSE Gcd(b, a % b)
\* a / b, in lowest terms
RatioDiv(a, b) ==
    LET n == a[1] * b[2]
        d == a[2] * b[1]
    IN  <<n \div Gcd(n, d), d \div Gcd(n, d)>>
\* Math.floor(n / r) and Math.floor(n * r) for an integer n >= 0
FloorDivBy(n, r) == (n * r[2]) \div r[1]
FloorTimes(n, r) == (n * r[1]) \div r[2]

\* the loop without its break at line 174
WindowFitsNoBreak(i, oldLength, newLength, ratio) == i < newLength - windowSize

\* the identity test written as ratio === 1.0
InBandExact(ratio) == ratio[1] = ratio[2]

\* Math.abs(ratio - 1.0) < 0.001, that is |num - den| * 1000 < den
InBand(ratio) == Abs(ratio[1] - ratio[2]) <= (ratio[2] - 1) \div 1000

\* the new length taken as oldLength * ratio
NewLengthTimes(oldLength, ratio) == Max(1, FloorTimes(oldLength, ratio))

\* Math.max(1, Math.floor(oldLength / ratio))
NewLength(oldLength, ratio) == Max(1, FloorDivBy(oldLength, ratio))

\* Math.floor(hopSize / ratio)
OutHopSize(ratio) == FloorDivBy(hopSize, ratio)

\* hann[i] = 0.5 * (1 - cos(2 pi i / (windowSize - 1))) = sin^2(pi i / (windowSize - 1)),
\* in units of 1/HannScale.  The sine is taken by Bhaskara's rational formula
\* 16 t (1 - t) / (5 - 4 t (1 - t)), t = i / (windowSize - 1), to 6 bits.
hann ==
    [i \in 0..(windowSize - 1) |->
       LET p == i * (windowSize - 1 - i)
           d == (windowSize - 1) * (windowSize - 1)
           sine == (16 * p * 64) \div (5 * d - 4 * p)
       IN  sine * sine]

\* x * hann[j], rounded to the sample unit
TimesHann(x, j) == TruncDiv(x * hann[j], HannScale)

\* lines 176-179 on `output`: output[i + j] += input[inputIdx + j] * hann[j]
AddWindow(output, input, i, inputIdx) ==
    [k \in DOMAIN output |->
       IF k >= i /\ k < i + windowSize
       THEN output[k] + TimesHann(input[inputIdx + (k - i)], k - i)
       ELSE output[k]]

\* lines 176-179 on `weights`: weights[i + j] += hann[j]
AddWeights(w, i) ==
    [k \in DOMAIN w |->
       IF k >= i /\ k < i + windowSize THEN w[k] + hann[k - i] ELSE w[k]]

\* line 172 and line 174: the loop goes on at synthesis position i
WindowFits(i, oldLength, newLength, ratio) ==
    /\ i < newLength - windowSize
    /\ ~(FloorTimes(i, ratio) + windowSize > oldLength)

\* lines 183-187: if (weights[i] > 0.01) output[i] /= weights[i]
NormalizeChannel(output, w) ==
    [k \in DOMAIN output |->
       IF w[k] * 100 > HannScale
       THEN TruncDiv(output[k] * HannScale, w[k])
       ELSE output[k]]

ZeroArray(n) == [k \in 0..(n - 1) |-> 0]

\* ----------------------------------------------------------- processAudio
Pitches == {-12, 0, 6, 12}

\* Math.pow(2, pitch / 12): exact for whole octaves, to 7 binary places otherwise
PitchFactor(pitch) ==
    CASE pitch = -12 -> <<1, 2>>
      [] pitch = 0 -> <<1, 1>>
      [] pitch = 6 -> <<181, 128>>
      [] pitch = 12 -> <<2, 1>>

\* the stretch ratio taken as speed * pitchFactor
StretchRatioTimes(speed, pitchFactor) ==
    LET n == speed[1] * pitchFactor[1]
        d == speed[2] * pitchFactor[2]
    IN  <<n \div Gcd(n, d), d \div Gcd(n, d)>>

\* line 113: stretchRatio = speed / pitchFactor
StretchRatio(speed, pitchFactor) == RatioDiv(speed, pitchFactor)

Speeds == {<<1, 2>>, <<1, 1>>, <<2001, 2000>>, <<3, 2>>, <<2, 1>>, <<3000, 1>>}

\* the rendered length taken as stretched.length * pitchFactor
RenderLengthTimes(stretchedLength, pitchFactor) ==
    Max(1, FloorTimes(stretchedLength, pitchFactor))

\* line 121: Math.max(1, Math.floor(stretched.length / pitchFactor))
RenderLength(stretchedLength, pitchFactor) == Max(1, FloorDivBy(stretchedLength, pitchFactor))

\* offlineCtx.startRendering(): the source played at playbackRate pitchFactor
\* into renderLength frames; frame k is taken at source position k * pitchFactor
\* and is silence past the end of the source.
RenderedBuffer(stretched, pitchFactor) ==
    [numberOfChannels |-> stretched.numberOfChannels,
     length |-> RenderLength(stretched.length, pitchFactor),
     sampleRate |-> stretched.sampleRate,
     channels |-> [c \in 0..(stretched.numberOfChannels - 1) |->
                    [k \in 0..(RenderLength(stretched.length, pitchFactor) - 1) |->
                       IF FloorTimes(k, pitchFactor) < stretched.length
                       THEN stretched.channels[c][FloorTimes(k, pitchFactor)]
                       ELSE 0]]]

\* the caller's AudioBuffer: a fixed pseudo-random signal of amplitude < 0.5
InputBuffer(a) ==
    [numberOfChannels |-> a.channels, length |-> a.length, sampleRate |-> a.sampleRate,
     channels |-> [c \in 0..(a.channels - 1) |->
                    [f \in 0..(a.length - 1) |->
                       (((f * 37 + c * 101 + a.seed) % 2001) - 1000) * 16]]]

\* timeStretch run on its own: lines 172-180, the window loop of one channel
RECURSIVE WindowLoop(_, _, _, _, _, _, _)
WindowLoop(output, w, input, i, oldLength, newLength, ratio) ==
    IF WindowFits(i, oldLength, newLength, ratio)
    THEN WindowLoop(AddWindow(output, input, i, FloorTimes(i, ratio)), AddWeights(w, i),
                    input, i + OutHopSize(ratio), oldLength, newLength, ratio)
    ELSE NormalizeChannel(output, w)

\* timeStretch(buffer, ratio)
timeStretch(buffer, ratio) ==
    IF InBand(ratio) THEN buffer
    ELSE LET newLength == NewLength(buffer.length, ratio)
         IN  [numberOfChannels |-> buffer.numberOfChannels,
              length |-> newLength,
              sampleRate |-> buffer.sampleRate,
              channels |-> [c \in 0..(buffer.numberOfChannels - 1) |->
                             WindowLoop(ZeroArray(newLength), ZeroArray(newLength),
                                        buffer.channels[c], 0, buffer.length, newLength, ratio)]]

\* processAudio(buffer, speed, pitch)
processAudio(buffer, speed, pitch) ==
    RenderedBuffer(timeStretch(buffer, StretchRatio(speed, PitchFactor(pitch))),
                   PitchFactor(pitch))

Calls == {1, 2}

\* the weights array pooled: every invocation uses the same one
WeightsPooled(c) == 1

\* the weights array an invocation allocates is its own
WeightsOf(c) == c

\* the id new AudioBuffer / createBuffer / startRendering gives a fresh buffer
NewId(h) == Len(h) + 1

IdleCall ==
    [pc |-> "idle", arg |-> [channels |-> 0, length |-> 0, sampleRate |-> 0, seed |-> 0],
     speed |-> <<1, 1>>, pitch |-> 0, pitchFactor |-> <<1, 1>>, stretchRatio |-> <<1, 1>>,
     input |-> 0, out |-> 0, stretched |-> 0, result |-> 0,
     channel |-> 0, i |-> 0, windows |-> 0, ctx |-> NoBuffer]

\* processAudio(buffer, speed, pitch), lines 100-113
Invoke(c, a, speed, pitch) ==
    /\ calls[c].pc = "idle"
    /\ heap' = Append(heap, InputBuffer(a))
    /\ calls' = [calls EXCEPT ![c] =
                   [IdleCall EXCEPT !.pc = "stretch", !.arg = a,
                                    !.speed = speed, !.pitch = pitch,
                                    !.pitchFactor = PitchFactor(pitch),
                                    !.stretchRatio = StretchRatio(speed, PitchFactor(pitch)),
                                    !.input = NewId(heap)]]
    /\ UNCHANGED weights
    /\ UNCHANGED notStretch

\* timeStretch, line 141: the identity band returns the input buffer itself
StretchIdentity(c) ==
    /\ calls[c].pc = "stretch"
    /\ InBand(calls[c].stretchRatio)
    /\ calls' = [calls EXCEPT ![c].stretched = calls[c].input, ![c].pc = "render"]
    /\ UNCHANGED <<heap, weights>>
    /\ UNCHANGED notStretch

\* timeStretch, lines 143-170: allocate outBuffer, enter the first channel
StretchBegin(c) ==
    /\ calls[c].pc = "stretch"
    /\ ~InBand(calls[c].stretchRatio)
    /\ LET buffer == heap[calls[c].input]
           newLength == NewLength(buffer.length, calls[c].stretchRatio)
       IN  /\ heap' = Append(heap, CreateBuffer(buffer.numberOfChannels, newLength,
                                                buffer.sampleRate))
           /\ weights' = [weights EXCEPT ![WeightsOf(c)] = ZeroArray(newLength)]
    /\ calls' = [calls EXCEPT ![c].out = NewId(heap), ![c].channel = 0, ![c].i = 0,
                              ![c].pc = "window"]
    /\ UNCHANGED notStretch

\* timeStretch, lines 172-180: one window is overlap-added
PlaceWindow(c) ==
    /\ calls[c].pc = "window"
    /\ LET k == calls[c]
           ch == k.channel
           input == heap[k.input].channels[ch]
           output == heap[k.out].channels[ch]
           inputIdx == FloorTimes(k.i, k.stretchRatio)
       IN  /\ WindowFits(k.i, heap[k.input].length, heap[k.out].length, k.stretchRatio)
           /\ heap' = [heap EXCEPT ![k.out].channels[ch] =
                          AddWindow(output, input, k.i, inputIdx)]
           /\ weights' = [weights EXCEPT ![WeightsOf(c)] = AddWeights(@, k.i)]
           /\ calls' = [calls EXCEPT ![c].i = k.i + OutHopSize(k.stretchRatio),
                                     ![c].windows = k.windows + 1]
    /\ UNCHANGED notStretch

\* timeStretch, lines 172-174: the window loop ends (bound reached, or break)
WindowsEnd(c) ==
    /\ calls[c].pc = "window"
    /\ ~WindowFits(calls[c].i, heap[calls[c].input].length, heap[calls[c].out].length,
                   calls[c].stretchRatio)
    /\ calls' = [calls EXCEPT ![c].pc = "normalize"]
    /\ UNCHANGED <<heap, weights>>
    /\ UNCHANGED notStretch

\* timeStretch, lines 183-190 and 165-170: normalize the channel, then enter the
\* next channel or return outBuffer
Normalize(c) ==
    /\ calls[c].pc = "normalize"
    /\ LET k == calls[c]
           ch == k.channel
           lastChannel == ch + 1 >= heap[k.input].numberOfChannels
       IN  /\ heap' = [heap EXCEPT ![k.out].channels[ch] =
                          NormalizeChannel(@, weights[WeightsOf(c)])]
           /\ weights' = IF lastChannel THEN weights
                         ELSE [weights EXCEPT ![WeightsOf(c)] = ZeroArray(heap[k.out].length)]
           /\ calls' = IF lastChannel
                       THEN [calls EXCEPT ![c].stretched = k.out, ![c].pc = "render"]
                       ELSE [calls EXCEPT ![c].channel = ch + 1, ![c].i = 0,
                                          ![c].pc = "window"]
    /\ UNCHANGED notStretch

\* processAudio, lines 119-132: the OfflineAudioContext is made and started
StartRendering(c) ==
    /\ calls[c].pc = "render"
    /\ LET stretched == heap[calls[c].stretched]
       IN  calls' = [calls EXCEPT
                       ![c].ctx = CreateBuffer(stretched.numberOfChannels,
                                               RenderLength(stretched.length,
                                                            calls[c].pitchFactor),
                                               stretched.sampleRate),
                       ![c].pc = "rendering"]
    /\ UNCHANGED <<heap, weights>>
    /\ UNCHANGED notStretch

\* processAudio, line 132: the rendering promise resolves with the final buffer
RenderingDone(c) ==
    /\ calls[c].pc = "rendering"
    /\ heap' = Append(heap, RenderedBuffer(heap[calls[c].stretched], calls[c].pitchFactor))
    /\ calls' = [calls EXCEPT ![c].result = NewId(heap), ![c].pc = "done"]
    /\ UNCHANGED weights
    /\ UNCHANGED notStretch

\* ---- one invocation, over a wide range of buffers, speeds and pitches
StretchArgs ==
    [channels : 1..MaxChannels,
     length : {0, 1, TinyFrames, windowSize + 1, LongFrames},
     sampleRate : {DefaultSampleRate},
     seed : {0}]

InitStretch ==
    /\ heap = <<>>
    /\ calls = [c \in Calls |-> IdleCall]
    /\ weights = [c \in Calls |-> <<>>]

InvokeAny ==
    \E a \in StretchArgs, speed \in Speeds, pitch \in Pitches : Invoke(1, a, speed, pitch)

NextStretch ==
    \/ InvokeAny
    \/ StretchIdentity(1)
    \/ StretchBegin(1)
    \/ PlaceWindow(1)
    \/ WindowsEnd(1)
    \/ Normalize(1)
    \/ StartRendering(1)
    \/ RenderingDone(1)

\* ---- two invocations on distinct buffers, their steps interleaved
ConcurrentArgs(c) ==
    IF c = 1
    THEN [channels : {1, 2}, length : {LongFrames}, sampleRate : {DefaultSampleRate},
          seed : {0}, speed : {<<3, 2>>}, pitch : {0}]
    ELSE [channels : {1}, length : {windowSize + 1},
          sampleRate : {DefaultSampleRate}, seed : {500},
          speed : {<<1, 1>>, <<2, 1>>}, pitch : {0, 12}]

InvokeConcurrent(c) ==
    \E a \in ConcurrentArgs(c) :
        Invoke(c, [channels |-> a.channels, length |-> a.length,
                   sampleRate |-> a.sampleRate, seed |-> a.seed], a.speed, a.pitch)

NextConcurrent ==
    \/ \E c \in Calls : InvokeConcurrent(c)
    \/ \E c \in Calls : StretchIdentity(c)
    \/ \E c \in Calls : StretchBegin(c)
    \/ \E c \in Calls : PlaceWindow(c)
    \/ \E c \in Calls : WindowsEnd(c)
    \/ \E c \in Calls : Normalize(c)
    \/ \E c \in Calls : StartRendering(c)
    \/ \E c \in Calls : RenderingDone(c)

\* ---- the window loop of timeStretch, lines 140-180, on the indices alone:
\* one channel of a buffer of oldLength frames, any ratio
LoopLengths ==
    {0, 1, TinyFrames, windowSize, windowSize + 1, LongFrames, 2 * windowSize,
     2 * windowSize + hopSize, 5 * windowSize}

\* a buffer long enough that newLength exceeds windowSize at speed 3000
HugeFrames == (windowSize + 1) * 3000

LoopArgs ==
    [oldLength : LoopLengths, speed : Speeds, pitch : Pitches]
    \cup [oldLength : {HugeFrames}, speed : {<<3000, 1>>}, pitch : Pitches]

IdleLoop ==
    [pc |-> "idle", oldLength |-> 0, ratio |-> <<1, 1>>, newLength |-> 0,
     outHopSize |-> 0, i |-> 0, inputIdx |-> 0, placedAt |-> 0 - 1, placed |-> {},
     iterations |-> 0, exit |-> ""]

InitLoop == loop = IdleLoop

\* timeStretch(buffer, ratio), lines 140-172: the identity return, or the
\* lengths and the hop are computed and the for loop is entered at i = 0
LoopCall ==
    /\ loop.pc = "idle"
    /\ \E a \in LoopArgs :
          LET ratio == StretchRatio(a.speed, PitchFactor(a.pitch))
          IN  loop' = IF InBand(ratio)
                      THEN [IdleLoop EXCEPT !.pc = "returned", !.oldLength = a.oldLength,
                                            !.ratio = ratio, !.newLength = a.oldLength,
                                            !.exit = "identity"]
                      ELSE [IdleLoop EXCEPT !.pc = "for", !.oldLength = a.oldLength,
                                            !.ratio = ratio,
                                            !.newLength = NewLength(a.oldLength, ratio),
                                            !.outHopSize = OutHopSize(ratio)]
    /\ UNCHANGED notLoop

\* lines 172-180: the condition holds, no break: the window is added at i from
\* inputIdx, then i += outHopSize.  A loop whose i stands still is followed for
\* MaxIterations passes.
LoopBody ==
    /\ loop.pc = "for"
    /\ WindowFits(loop.i, loop.oldLength, loop.newLength, loop.ratio)
    /\ (loop.outHopSize = 0 => loop.iterations < MaxIterations)
    /\ loop' = [loop EXCEPT !.inputIdx = FloorTimes(loop.i, loop.ratio),
                            !.placedAt = loop.i,
                            !.placed = loop.placed \cup {loop.i},
                            !.i = loop.i + loop.outHopSize,
                            !.iterations = loop.iterations + 1]
    /\ UNCHANGED notLoop

\* lines 172 and 174: the condition fails, or the break is taken
LoopExit ==
    /\ loop.pc = "for"
    /\ ~WindowFits(loop.i, loop.oldLength, loop.newLength, loop.ratio)
    /\ loop' = [loop EXCEPT !.pc = "returned",
                            !.exit = IF loop.i < loop.newLength - windowSize
                                     THEN "break" ELSE "condition"]
    /\ UNCHANGED notLoop

NextLoop == LoopCall \/ LoopBody \/ LoopExit

\* ------------------------------------------ properties of one invocation
Returned(c) == calls[c].pc \in {"render", "rendering", "done"}

\* |ratio - 1.0| < 0.001, from the numbers of the call
NearOne(ratio) == Abs(ratio[1] - ratio[2]) * 1000 < ratio[2]

\* C2 as stated: the returned frame count divided by the input frame count
\* equals speed within 1%.
C2_QuotientIsSpeed ==
    (calls[1].pc = "done" /\ calls[1].arg.length >= 1) =>
        LET L == calls[1].arg.length
            out == heap[calls[1].result].length
            sn == calls[1].speed[1]
            sd == calls[1].speed[2]
        IN  Abs(out * sd - L * sn) * 100 <= L * sn

\* C2 as amended: the returned frame count divided by the input frame count
\* equals 1 / speed within 1%, for every pitch, whenever the input is long
\* enough for the two floors to stay within the tolerance:
\* L / speed >= 200 * (1 + 1 / pitchFactor).
C2_QuotientIsReciprocal ==
    LET L == calls[1].arg.length
        sn == calls[1].speed[1]
        sd == calls[1].speed[2]
        fn == calls[1].pitchFactor[1]
        fd == calls[1].pitchFactor[2]
    IN  (calls[1].pc = "done" /\ L * sd * fn >= 200 * (fn + fd) * sn) =>
            Abs(heap[calls[1].result].length * sn - L * sd) * 100 <= L * sd

C2_Witness ==
    /\ calls[1].pc = "done"
    /\ calls[1].arg.length = LongFrames
    /\ calls[1].speed = <<3, 2>>
    /\ calls[1].pitch = 6
    /\ calls[1].windows > 0
    /\ heap[calls[1].result].length # LongFrames

\* C4 as stated: outside the identity band timeStretch returns exactly
\* floor(L / r) frames per channel, same sample rate and channel count.
C4_FloorLength ==
    (Returned(1) /\ ~NearOne(calls[1].stretchRatio)) =>
        LET k == calls[1]
            b == heap[k.stretched]
        IN  /\ b.length = (k.arg.length * k.stretchRatio[2]) \div k.stretchRatio[1]
            /\ b.sampleRate = k.arg.sampleRate
            /\ b.numberOfChannels = k.arg.channels

\* C4 as amended: outside the identity band timeStretch returns exactly
\* max(1, floor(L / r)) frames per channel, with the sample rate and the
\* channel count of the input.
C4_MaxFloorLength ==
    (Returned(1) /\ ~NearOne(calls[1].stretchRatio)) =>
        LET k == calls[1]
            b == heap[k.stretched]
            q == (k.arg.length * k.stretchRatio[2]) \div k.stretchRatio[1]
        IN  /\ b.length = IF q >= 1 THEN q ELSE 1
            /\ b.sampleRate = k.arg.sampleRate
            /\ b.numberOfChannels = k.arg.channels
            /\ \A c \in 0..(b.numberOfChannels - 1) :
                   DOMAIN b.channels[c] = 0..(b.length - 1)

C4_Witness ==
    /\ calls[1].pc = "done"
    /\ calls[1].stretchRatio = <<2, 1>>
    /\ calls[1].arg.length = LongFrames
    /\ calls[1].windows > 0
    /\ heap[calls[1].stretched].length = LongFrames \div 2

\* C5: stretch identity.  In the identity band timeStretch returns the input
\* buffer itself, with every sample, the frame count, the sample rate and the
\* channel count unchanged, and places no window.
C5_IdentityReturnsInput ==
    (Returned(1) /\ NearOne(calls[1].stretchRatio)) =>
        /\ calls[1].stretched = calls[1].input
        /\ heap[calls[1].input] = InputBuffer(calls[1].arg)
        /\ calls[1].windows = 0
        /\ calls[1].out = 0

C5_Witness ==
    /\ calls[1].pc = "done"
    /\ calls[1].stretchRatio = <<2001, 2000>>
    /\ calls[1].arg.length = LongFrames
    /\ calls[1].stretched = calls[1].input

\* C6: zero-length edge case.  For every ratio, the identity band included,
\* the buffer timeStretch returns has at least 1 frame, and so has the buffer
\* processAudio returns.
C6_AtLeastOneFrame ==
    /\ Returned(1) => heap[calls[1].stretched].length >= 1
    /\ calls[1].pc = "done" => heap[calls[1].result].length >= 1

\* a step of invocation c leaves the weights of the others and every buffer
\* but c's outBuffer as they were
WritesOwnArrays(c) ==
    calls'[c] # calls[c] =>
        /\ \A d \in Calls \ {c} : weights'[d] = weights[d]
        /\ \A id \in 1..Len(heap) : id # calls[c].out => heap'[id] = heap[id]

\* the buffer invocation c returns, from timeStretch and from processAudio, is
\* the one the same call returns when nothing else runs
ReturnsAloneResult(c) ==
    /\ (calls[c].pc = "idle" /\ calls'[c].pc # "idle") =>
           heap'[calls'[c].input] = InputBuffer(calls'[c].arg)
    /\ (~Returned(c) /\ calls'[c].pc = "render") =>
           heap'[calls'[c].stretched] =
               timeStretch(InputBuffer(calls[c].arg), calls[c].stretchRatio)
    /\ (calls[c].pc # "done" /\ calls'[c].pc = "done") =>
           /\ heap'[calls'[c].result] =
                  processAudio(InputBuffer(calls[c].arg), calls[c].speed, calls[c].pitch)
           /\ heap'[calls[c].input] = InputBuffer(calls[c].arg)

\* C10: no shared mutable state.  With the steps of two invocations on
\* distinct buffers interleaved in any order, each step writes only the
\* output and weight arrays of its own invocation, the input buffer is never
\* written, and each invocation returns the buffer it returns when run alone.
C10_NoSharedState ==
    [][\A c \in Calls : WritesOwnArrays(c) /\ ReturnsAloneResult(c)]_vars

C10_Witness ==
    /\ calls[1].pc = "done"
    /\ calls[2].pc = "done"
    /\ calls[1].windows > 0
    /\ calls[2].windows > 0
    /\ calls[1].out # calls[2].out
    /\ calls[1].result > calls[2].out
    /\ calls[2].result > calls[1].out

\* C11: orchestrator factorisation and ordering.  pitchFactor is 2^(pitch/12)
\* and stretchRatio times pitchFactor is speed; while timeStretch runs no
\* rendering context exists; when rendering starts the stretched buffer is the
\* finished result of timeStretch on the input with stretchRatio; the context
\* and the rendered buffer have max(1, floor(stretchedLength / pitchFactor))
\* frames with the stretched buffer's channel count and sample rate, and every
\* rendered frame is taken from the stretched buffer at rate pitchFactor.
C11_StretchThenResample ==
    LET k == calls[1]
        pf == k.pitchFactor
        n == k.stretchRatio[1] * pf[1]
        d == k.stretchRatio[2] * pf[2]
    IN  /\ k.pc # "idle" =>
               /\ k.pitch = -12 => pf = <<1, 2>>
               /\ k.pitch = 0 => pf = <<1, 1>>
               /\ k.pitch = 12 => pf = <<2, 1>>
               /\ k.pitch = 6 => (pf[1] * pf[1] - 2 * pf[2] * pf[2]) * 100 \in
                                    (-(pf[2] * pf[2]))..(pf[2] * pf[2])
               /\ <<n \div Gcd(n, d), d \div Gcd(n, d)>> = k.speed
        /\ k.pc \in {"stretch", "window", "normalize", "render"} =>
               k.ctx = NoBuffer /\ k.result = 0
        /\ k.pc \in {"rendering", "done"} =>
               LET stretched == heap[k.stretched]
                   frames == Max(1, (stretched.length * pf[2]) \div pf[1])
               IN  /\ stretched = timeStretch(InputBuffer(k.arg), k.stretchRatio)
                   /\ k.ctx.length = frames
                   /\ k.ctx.numberOfChannels = stretched.numberOfChannels
                   /\ k.ctx.sampleRate = stretched.sampleRate
                   /\ k.pc = "done" =>
                          LET result == heap[k.result]
                          IN  /\ result.length = frames
                              /\ result.numberOfChannels = stretched.numberOfChannels
                              /\ result.sampleRate = stretched.sampleRate
                              /\ \A c \in 0..(result.numberOfChannels - 1),
                                    f \in 0..(frames - 1) :
                                     LET at == (f * pf[1]) \div pf[2]
                                     IN  result.channels[c][f] =
                                            IF at < stretched.length
                                            THEN stretched.channels[c][at] ELSE 0

C11_Witness ==
    /\ calls[1].pc = "done"
    /\ calls[1].speed = <<3, 2>>
    /\ calls[1].pitch = 12
    /\ calls[1].windows > 0
    /\ calls[1].stretched # calls[1].input
    /\ heap[calls[1].input].length = LongFrames
    /\ heap[calls[1].stretched].length = (LongFrames * 4) \div 3
    /\ heap[calls[1].result].length = ((LongFrames * 4) \div 3) \div 2

\* ------------------------------------------- properties of the window loop
\* the synthesis positions 0, Hout, 2 * Hout, ... up to newLength
SynthesisPositions ==
    IF loop.outHopSize = 0 THEN {0}
    ELSE {m * loop.outHopSize : m \in 0..(loop.newLength \div loop.outHopSize)}

\* C12: OLA window placement.  On the non-identity path the windows placed
\* are exactly those at the synthesis positions i = 0, Hout, 2*Hout, ... with
\* i + 1024 <= newLength that come before the first position whose input
\* position has floor(i * r) + 1024 > oldLength; so there is one at
\* i = newLength - 1024 when that is a multiple of Hout.
C12_WindowAtEveryFittingPosition ==
    (loop.pc = "returned" /\ loop.exit # "identity") =>
        loop.placed =
            {i \in SynthesisPositions :
                /\ i + windowSize <= loop.newLength
                /\ \A k \in SynthesisPositions :
                       k <= i => FloorTimes(k, loop.ratio) + windowSize <= loop.oldLength}

\* C15: termination.  Every pass of the window loop leaves the synthesis
\* position larger than it found it, so the loop makes at most newLength passes.
C15_LoopAdvances ==
    loop.iterations > 0 =>
        /\ loop.i > loop.placedAt
        /\ loop.iterations <= loop.newLength

\* C16: index safety.  In every pass of the window loop, for every j in
\* 0..1023, the write index i + j is within 0..newLength-1 and the read index
\* floor(i * r) + j is within 0..oldLength-1.
C16_IndicesInRange ==
    loop.iterations > 0 =>
        \A j \in 0..(windowSize - 1) :
            /\ 0 <= loop.placedAt + j
            /\ loop.placedAt + j < loop.newLength
            /\ 0 <= loop.inputIdx + j
            /\ loop.inputIdx + j < loop.oldLength

C16_Witness ==
    /\ loop.pc = "returned"
    /\ loop.exit = "break"
    /\ loop.iterations >= 2
    /\ loop.placedAt > 0
    /\ loop.inputIdx + windowSize = loop.oldLength

\* -------------------------------------------------- the decode / encode run
NoWav == [view |-> <<>>, pos |-> 0]

InitCodec ==
    /\ cpc = "idle"
    /\ cSource = "none"
    /\ cData = <<>>
    /\ cChannels = 0
    /\ cBuffer = NoBuffer
    /\ cError = ""
    /\ wav = NoWav
    /\ offset = 0

\* a caller's AudioBuffer: channel c of frame f holds v or w, alternating
SuppliedBuffer(numChannels, length, sampleRate, v, w) ==
    [numberOfChannels |-> numChannels, length |-> length, sampleRate |-> sampleRate,
     channels |-> [c \in 0..(numChannels - 1) |->
                    [f \in 0..(length - 1) |-> IF (c + f) % 2 = 0 THEN v ELSE w]]]

\* longer inputs, every 16-bit sample different: MaxBytes + 1 to 2 * MaxBytes + 1
\* bytes
RampData ==
    {[k \in 1..n |-> (k * 37) % 256] : n \in (MaxBytes + 1)..(2 * MaxBytes + 1)}

PcmInputs == SeqsUpTo(ByteVals, MaxBytes) \cup RampData

\* decodePCMToAudioBuffer(data, ctx, sampleRate, numChannels)
Decode ==
    /\ cpc = "idle"
    /\ \E data \in PcmInputs, numChannels \in 1..MaxChannels,
          sampleRate \in SampleRates :
          LET r == DecodePCM(data, sampleRate, numChannels)
          IN  /\ cData' = data
              /\ cChannels' = numChannels
              /\ cBuffer' = r.buffer
              /\ cError' = r.error
              /\ cpc' = IF r.ok THEN "buffer" ELSE "failed"
    /\ cSource' = "pcm"
    /\ UNCHANGED <<wav, offset>>
    /\ UNCHANGED notCodec

\* audioBufferToWav called on a buffer that did not come from the interpreter
Supply ==
    /\ cpc = "idle"
    /\ \E numChannels \in 1..MaxChannels, length \in 0..MaxSupplyFrames,
          sampleRate \in SampleRates, v \in SampleVals, w \in SampleVals :
          cBuffer' = SuppliedBuffer(numChannels, length, sampleRate, v, w)
    /\ cSource' = "supplied"
    /\ cpc' = "buffer"
    /\ UNCHANGED <<cData, cChannels, cError, wav, offset>>
    /\ UNCHANGED notCodec

\* audioBufferToWav, lines 40-65: allocate the view and write the header
EncodeHeader ==
    /\ cpc = "buffer"
    /\ wav' = WriteHeader(cBuffer)
    /\ offset' = 0
    /\ cpc' = "samples"
    /\ UNCHANGED <<cSource, cData, cChannels, cBuffer, cError>>
    /\ UNCHANGED notCodec

\* audioBufferToWav, lines 72-80: one pass of while (pos < length)
EncodeFrame ==
    /\ cpc = "samples"
    /\ wav.pos < WavLength(cBuffer)
    /\ wav' = WriteFrame(wav, cBuffer, offset, 0)
    /\ offset' = offset + 1
    /\ UNCHANGED <<cpc, cSource, cData, cChannels, cBuffer, cError>>
    /\ UNCHANGED notCodec

\* audioBufferToWav, line 82: the loop is over, the Blob is returned
EncodeReturn ==
    /\ cpc = "samples"
    /\ ~(wav.pos < WavLength(cBuffer))
    /\ cpc' = "blob"
    /\ UNCHANGED <<cSource, cData, cChannels, cBuffer, cError, wav, offset>>
    /\ UNCHANGED notCodec

NextCodec == Decode \/ Supply \/ EncodeHeader \/ EncodeFrame \/ EncodeReturn

\* ------------------------------------------------------------ App.generate
ResponseBytes == {0, 255}

\* what generateTTSAudio / generateMultiTTSAudio resolve with: no inline data
\* (undefined), a string atob rejects, or the base64 of some bytes
Responses ==
    {[kind |-> "undefined", data |-> <<>>], [kind |-> "malformed", data |-> <<>>]}
    \cup {[kind |-> "base64", data |-> d] :
             d \in SeqsUpTo(ResponseBytes, MaxResponseBytes) \ {<<>>}}

NoRun == [id |-> 0, before |-> [audioUrl |-> 0, rawBuffer |-> NoBuffer],
          after |-> [error |-> "", audioUrl |-> 0, rawBuffer |-> NoBuffer]]

InitApp ==
    /\ isGenerating = FALSE
    /\ error = ""
    /\ audioUrl = 0
    /\ rawBufferRef = NoBuffer
    /\ activeTab = "single"
    /\ script = ""
    /\ multiScript = ""
    /\ pending = {}
    /\ started = 0
    /\ blobs = <<>>
    /\ last = NoRun

\* line 173: the textarea edits the text of the active tab
EditScript ==
    /\ \E text \in {"", "hello"} :
          IF activeTab = "single"
          THEN script' = text /\ script # text /\ UNCHANGED multiScript
          ELSE multiScript' = text /\ multiScript # text /\ UNCHANGED script
    /\ UNCHANGED <<isGenerating, error, audioUrl, rawBufferRef, activeTab, pending,
                   started, blobs, last>>
    /\ UNCHANGED notApp

\* lines 152 and 158: the navigation tabs
SetActiveTab ==
    /\ \E tab \in {"single", "multi"} : tab # activeTab /\ activeTab' = tab
    /\ UNCHANGED <<isGenerating, error, audioUrl, rawBufferRef, script, multiScript,
                   pending, started, blobs, last>>
    /\ UNCHANGED notApp

\* line 393: the Generate button is disabled
GenerateDisabled ==
    isGenerating \/ (IF activeTab = "single" THEN script = "" ELSE multiScript = "")

\* generate with its guard at line 101 and the button's guard left out
GenerateStartUnguarded ==
    /\ (IF activeTab = "single" THEN script # "" ELSE multiScript # "")
    /\ started < MaxRequests
    /\ started' = started + 1
    /\ isGenerating' = TRUE
    /\ error' = ""
    /\ pending' = pending \cup
                    {[id |-> started + 1, pc |-> "tts", audioUrl |-> audioUrl,
                      before |-> [audioUrl |-> audioUrl, rawBuffer |-> rawBufferRef],
                      decoded |-> [ok |-> FALSE, error |-> "", buffer |-> NoBuffer]]}
    /\ UNCHANGED <<audioUrl, rawBufferRef, activeTab, script, multiScript, blobs, last>>
    /\ UNCHANGED notApp

\* generate, lines 100-113: up to the await of the TTS call
GenerateStart ==
    /\ ~GenerateDisabled
    /\ ~isGenerating
    /\ started < MaxRequests
    /\ started' = started + 1
    /\ isGenerating' = TRUE
    /\ error' = ""
    /\ pending' = pending \cup
                    {[id |-> started + 1, pc |-> "tts", audioUrl |-> audioUrl,
                      before |-> [audioUrl |-> audioUrl, rawBuffer |-> rawBufferRef],
                      decoded |-> [ok |-> FALSE, error |-> "", buffer |-> NoBuffer]]}
    /\ UNCHANGED <<audioUrl, rawBufferRef, activeTab, script, multiScript, blobs, last>>
    /\ UNCHANGED notApp

\* lines 128-132: catch (err) { setError(...) } finally { setIsGenerating(false) }
Finish(r, err, url, raw) ==
    /\ error' = (IF err # "" THEN err ELSE error)
    /\ isGenerating' = FALSE
    /\ pending' = pending \ {r}
    /\ last' = [id |-> r.id, before |-> r.before,
                after |-> [error |-> IF err # "" THEN err ELSE error,
                           audioUrl |-> url, rawBuffer |-> raw]]

\* lines 109/112 throw: the TTS call rejects
TTSRejects ==
    /\ \E r \in pending :
          /\ r.pc = "tts"
          /\ Finish(r, "Failed to generate audio.", audioUrl, rawBufferRef)
    /\ UNCHANGED <<audioUrl, rawBufferRef, activeTab, script, multiScript, started, blobs>>
    /\ UNCHANGED notApp

\* lines 115-127 with no inline data: if (base64Data) is skipped
TTSResolvesEmpty ==
    /\ \E r \in pending :
          /\ r.pc = "tts"
          /\ Finish(r, "", audioUrl, rawBufferRef)
    /\ UNCHANGED <<audioUrl, rawBufferRef, activeTab, script, multiScript, started, blobs>>
    /\ UNCHANGED notApp

\* line 117: decodeBase64 throws on a string atob rejects
TTSResolvesMalformed ==
    /\ \E r \in pending :
          /\ r.pc = "tts"
          /\ Finish(r, "InvalidCharacterError", audioUrl, rawBufferRef)
    /\ UNCHANGED <<audioUrl, rawBufferRef, activeTab, script, multiScript, started, blobs>>
    /\ UNCHANGED notApp

\* lines 115-118: decodeBase64, then decodePCMToAudioBuffer(pcmBytes, ctx) is
\* called and awaited
TTSResolvesData ==
    /\ \E r \in pending, resp \in Responses :
          /\ r.pc = "tts"
          /\ resp.kind = "base64"
          /\ pending' = (pending \ {r}) \cup
                          {[r EXCEPT !.pc = "decoded",
                                     !.decoded = DecodePCM(resp.data, DefaultSampleRate, 1)]}
    /\ UNCHANGED <<isGenerating, error, audioUrl, rawBufferRef, activeTab, script,
                   multiScript, started, blobs, last>>
    /\ UNCHANGED notApp

\* line 118 rejects: the catch and the finally
DecodeFails ==
    /\ \E r \in pending :
          /\ r.pc = "decoded"
          /\ ~r.decoded.ok
          /\ Finish(r, r.decoded.error, audioUrl, rawBufferRef)
    /\ UNCHANGED <<audioUrl, rawBufferRef, activeTab, script, multiScript, started, blobs>>
    /\ UNCHANGED notApp

\* lines 119-127 and 131: store the buffer, encode it, publish the new URL
Publish ==
    /\ \E r \in pending :
          /\ r.pc = "decoded"
          /\ r.decoded.ok
          /\ rawBufferRef' = r.decoded.buffer
          /\ audioUrl' = r.id
          /\ blobs' = [u \in ((DOMAIN blobs) \ {r.audioUrl}) \cup {r.id} |->
                         IF u = r.id THEN audioBufferToWav(r.decoded.buffer) ELSE blobs[u]]
          /\ Finish(r, "", r.id, r.decoded.buffer)
    /\ UNCHANGED <<activeTab, script, multiScript, started>>
    /\ UNCHANGED notApp

\* ------------------------------------------------- App.handlePreviewVoice
Voices == {"Kore", "Puck"}

InitPreview ==
    /\ previewingVoice = ""
    /\ previews = {}
    /\ previewed = 0

\* line 101: generate() reached while isGenerating holds returns at once
GenerateWhileBusy ==
    /\ isGenerating
    /\ UNCHANGED previewVars
    /\ UNCHANGED appVars
    /\ UNCHANGED notComponent

\* line 78: handlePreviewVoice() reached while a preview runs returns at once
PreviewWhileBusy ==
    /\ previewingVoice # ""
    /\ UNCHANGED previewVars
    /\ UNCHANGED appVars
    /\ UNCHANGED notComponent

\* handlePreviewVoice, lines 77-82: up to the await of the TTS call
PreviewStart ==
    /\ previewingVoice = ""
    /\ previewed < MaxPreviews
    /\ \E voice \in Voices :
          /\ previewingVoice' = voice
          /\ previews' = previews \cup
                           {[id |-> previewed + 1, voice |-> voice, pc |-> "tts",
                             decoded |-> [ok |-> FALSE, error |-> "", buffer |-> NoBuffer]]}
    /\ previewed' = previewed + 1
    /\ UNCHANGED appVars
    /\ UNCHANGED notComponent

\* lines 92-97: catch (err) { setError(...) } finally { setPreviewingVoice(null) }
PreviewFinish(p, err) ==
    /\ error' = (IF err # "" THEN err ELSE error)
    /\ previewingVoice' = ""
    /\ previews' = previews \ {p}
    /\ UNCHANGED previewed
    /\ UNCHANGED <<isGenerating, audioUrl, rawBufferRef, activeTab, script, multiScript,
                   pending, started, blobs, last>>
    /\ UNCHANGED notComponent

\* line 82 settles without audio: the TTS call rejects, resolves with no
\* inline data, or with a string decodeBase64 throws on
PreviewNoAudio ==
    \E p \in previews, err \in {"Failed to preview voice.", "", "InvalidCharacterError"} :
        /\ p.pc = "tts"
        /\ PreviewFinish(p, err)

\* the bytes of a preview's audio: silence, of every length the service may send
PreviewData == SeqsUpTo({0}, MaxResponseBytes) \ {<<>>}

\* lines 83-86: decodeBase64, then decodePCMToAudioBuffer is called and awaited
PreviewResolvesData ==
    /\ \E p \in previews, data \in PreviewData :
          /\ p.pc = "tts"
          /\ previews' = (previews \ {p}) \cup
                           {[p EXCEPT !.pc = "decoded",
                                      !.decoded = DecodePCM(data, DefaultSampleRate, 1)]}
    /\ UNCHANGED <<previewingVoice, previewed>>
    /\ UNCHANGED appVars
    /\ UNCHANGED notComponent

\* lines 86-97: the decode rejects (catch), or the buffer is played; finally
PreviewDecoded ==
    \E p \in previews :
        /\ p.pc = "decoded"
        /\ PreviewFinish(p, p.decoded.error)

NextApp ==
    \/ EditScript
    \/ SetActiveTab
    \/ GenerateStart
    \/ GenerateWhileBusy
    \/ TTSRejects
    \/ TTSResolvesEmpty
    \/ TTSResolvesMalformed
    \/ TTSResolvesData
    \/ DecodeFails
    \/ Publish
    \/ PreviewStart
    \/ PreviewWhileBusy
    \/ PreviewNoAudio
    \/ PreviewResolvesData
    \/ PreviewDecoded

C9_RequestAtomic ==
    last.id # 0 =>
        \/ /\ last.after.audioUrl # last.before.audioUrl
           /\ last.after.audioUrl \in DOMAIN blobs
           /\ blobs[last.after.audioUrl] = audioBufferToWav(last.after.rawBuffer)
        \/ /\ last.after.error # ""
           /\ last.after.audioUrl = last.before.audioUrl
           /\ last.after.rawBuffer = last.before.rawBuffer

Init == InitCodec /\ InitStretch /\ InitApp /\ InitLoop /\ InitPreview

Spec == Init /\ [][NextApp]_vars

SpecCodec == Init /\ [][NextCodec]_vars

SpecStretch == Init /\ [][NextStretch]_vars

SpecConcurrent == Init /\ [][NextConcurrent]_vars

SpecLoop == Init /\ [][NextLoop]_vars

\* ------------------------------------------------ properties of the codec
DataOffset(buffer, f, c) == HeaderBytes + 2 * (f * buffer.numberOfChannels + c)

\* C1: round trip.  Every 16-bit sample s the interpreter decoded (s / 32768)
\* is read back from the data chunk of the encoded file as s again, except at
\* the positive extreme s = 32767.
C1_RoundTrip ==
    (cpc = "blob" /\ cSource = "pcm") =>
        \A f \in 0..(cBuffer.length - 1), c \in 0..(cBuffer.numberOfChannels - 1) :
            LET s == Int16At(cData, f * cBuffer.numberOfChannels + c)
            IN  s # 32767 => S16At(wav.view, DataOffset(cBuffer, f, c)) = s

\* C3: WAV header exactness.  The file has N*C*2+44 bytes; its first 44 are
\* "RIFF", total-8, "WAVE", "fmt ", 16, 1, C, R, R*2*C, C*2, 16, "data",
\* total-44, little-endian; the cursor is at 44 when sample writing begins.
C3_WavHeaderExact ==
    cpc \in {"samples", "blob"} =>
        LET v == wav.view
            C == cBuffer.numberOfChannels
            N == cBuffer.length
            R == cBuffer.sampleRate
            total == N * C * 2 + 44
        IN  /\ DOMAIN v = 0..(total - 1)
            /\ <<v[0], v[1], v[2], v[3]>> = <<82, 73, 70, 70>>
            /\ U32At(v, 4) = total - 8
            /\ <<v[8], v[9], v[10], v[11]>> = <<87, 65, 86, 69>>
            /\ <<v[12], v[13], v[14], v[15]>> = <<102, 109, 116, 32>>
            /\ U32At(v, 16) = 16
            /\ U16At(v, 20) = 1
            /\ U16At(v, 22) = C
            /\ U32At(v, 24) = R
            /\ U32At(v, 28) = R * 2 * C
            /\ U16At(v, 32) = C * 2
            /\ U16At(v, 34) = 16
            /\ <<v[36], v[37], v[38], v[39]>> = <<100, 97, 116, 97>>
            /\ U32At(v, 40) = total - 44
            /\ (offset = 0 => wav.pos = 44)

C3_Witness ==
    /\ cpc = "blob"
    /\ cBuffer.numberOfChannels = 2
    /\ cBuffer.length = 2
    /\ cBuffer.sampleRate = 24000
    /\ wav.pos = 52

\* C7: clamping.  A sample above 1.0 is written as the same integer as 1.0
\* (32767), a sample below -1.0 as the same integer as -1.0 (-32768), and the
\* integer handed to setInt16 is always within -32768..32767.
C7_ClampNoOverflow ==
    cpc \in {"samples", "blob"} =>
        \A f \in 0..(offset - 1), c \in 0..(cBuffer.numberOfChannels - 1) :
            LET v == cBuffer.channels[c][f]
                written == S16At(wav.view, DataOffset(cBuffer, f, c))
            IN  /\ Quantize(v) \in -32768..32767
                /\ v >= One => written = 32767
                /\ v <= -One => written = -32768

C7_Witness ==
    /\ cpc = "blob"
    /\ cBuffer.length = 2
    /\ cBuffer.channels[0][0] = 49152
    /\ cBuffer.channels[0][1] = -49152
    /\ S16At(wav.view, HeaderBytes) = 32767
    /\ S16At(wav.view, HeaderBytes + 2 * cBuffer.numberOfChannels) = -32768

\* Math.round(a / b) for b > 0: the nearest integer, halves upward
RoundDiv(a, b) == (2 * a + b) \div (2 * b)

\* C13: per-sample quantisation.  Every sample v is clamped to [-1, 1] and
\* written as round(v * 32768) when negative and round(v * 32767) otherwise:
\* the nearest integer to the scaled value.
C13_QuantizeRounds ==
    cpc \in {"samples", "blob"} =>
        \A f \in 0..(offset - 1), c \in 0..(cBuffer.numberOfChannels - 1) :
            LET v == Max(-One, Min(One, cBuffer.channels[c][f]))
                written == S16At(wav.view, DataOffset(cBuffer, f, c))
            IN  written = IF v < 0 THEN RoundDiv(v * 32768, One)
                          ELSE RoundDiv(v * 32767, One)

\* C14: interleave order agreement.  The interpreter stores the 16-bit sample
\* at index f*C + c, divided by 32768 and so within [-1, 1), as frame f of
\* channel c; the encoder writes frame f of channel c as the little-endian
\* 16-bit value at byte 44 + 2*(f*C + c), takes each (frame, channel) pair
\* once, in order, and ends with its cursor at the total length.
C14_InterleaveOrder ==
    LET C == cBuffer.numberOfChannels
    IN  /\ (cSource = "pcm" /\ cpc \in {"buffer", "samples", "blob"}) =>
               /\ C = cChannels
               /\ \A f \in 0..(cBuffer.length - 1), c \in 0..(C - 1) :
                      /\ cBuffer.channels[c][f] = Int16At(cData, f * C + c)
                      /\ cBuffer.channels[c][f] >= -One
                      /\ cBuffer.channels[c][f] < One
        /\ cpc \in {"samples", "blob"} =>
               /\ wav.pos = HeaderBytes + 2 * C * offset
               /\ offset <= cBuffer.length
               /\ \A f \in 0..(offset - 1), c \in 0..(C - 1) :
                      LET at == HeaderBytes + 2 * (f * C + c)
                          u == Quantize(cBuffer.channels[c][f]) % 65536
                      IN  /\ wav.view[at] = u % 256
                          /\ wav.view[at + 1] = u \div 256
        /\ cpc = "blob" =>
               /\ offset = cBuffer.length
               /\ wav.pos = cBuffer.length * C * 2 + HeaderBytes
               /\ DOMAIN wav.view = 0..(wav.pos - 1)

C14_Witness ==
    /\ cpc = "blob"
    /\ cSource = "pcm"
    /\ cBuffer.numberOfChannels = 2
    /\ cBuffer.length = 2
    /\ Cardinality({cBuffer.channels[c][f] : c \in 0..1, f \in 0..1}) = 4
    /\ cBuffer.channels[1][0] = Int16At(cData, 1)
    /\ cBuffer.channels[0][1] = Int16At(cData, 2)
    /\ S16At(wav.view, HeaderBytes + 2) = Quantize(cBuffer.channels[1][0])
    /\ S16At(wav.view, HeaderBytes + 4) = Quantize(cBuffer.channels[0][1])

\* C8: misaligned input.  When the byte length is not a multiple of
\* 2 * numChannels the interpreter does not fail: it returns
\* floor(byteLength / (2 * numChannels)) frames built from the aligned prefix.
C8_MisalignedTruncates ==
    (cSource = "pcm" /\ Len(cData) % (2 * cChannels) # 0) =>
        /\ cpc # "failed"
        /\ cBuffer.numberOfChannels = cChannels
        /\ cBuffer.length = Len(cData) \div (2 * cChannels)
        /\ \A f \in 0..(cBuffer.length - 1), c \in 0..(cChannels - 1) :
               cBuffer.channels[c][f] = Int16At(cData, f * cChannels + c)

=============================================================================
